---- MODULE Spec2Model ----
(***************************************************************************)
(* A model of the photo library of sheascan/photo_sterile: the SQLite      *)
(* catalog (tables images and clusters) written by the ingestion and the   *)
(* duplicate detection of v10.1_silent_edition.py, and the review actions  *)
(* of investigator.py (dissolve_cluster, keep_one) that move files to      *)
(* sorted_photos/Keepers and sorted_photos/Discards.                       *)
(***************************************************************************)
EXTENDS Integers, Sequences, FiniteSets, TLC

VARIABLES
    meta,       \* the content of each file of the photo folder (never changes)
    lib,        \* the paths of the photo folder that still hold their file
    keepers,    \* the files now in sorted_photos/Keepers (by original path)
    discards,   \* the files now in sorted_photos/Discards (by original path)
    images,     \* table images, in rowid order
    clusters,   \* table clusters as committed (what any other connection reads)
    ing,        \* per browser session: the ingestion run between analysis and save
    pc,         \* Find Global Duplicates: "idle", or "writing" inside its transaction
    txn,        \* the clusters table as the writing connection sees it
    pending,    \* the rows Find Global Duplicates has still to insert, in order
    run,        \* parameters, considered ids and orphans of the detection run in progress
    last,       \* the last handler that wrote to the library or raised: its parameters, how it ended
    ui          \* the tool in front of the operator: its session_state or loop, and the
                \* folders that only this tool fills (archive, trash, converted .jpg)

vars == <<meta, lib, keepers, discards, images, clusters, ing, pc, txn, pending,
          run, last, ui>>

----------------------------------------------------------------------------
(* Bounds of the model *)

NFiles == 3

Paths == 1..NFiles

Sessions == {"tab1", "tab2"}

(* The folder holds two sub-folders; files 1,2 share a file name, as do 3,4. *)
DirOf(p) == p % 2

BaseName(p) == (p + 1) \div 2

ScanRoots == {"input_photos", "input_photos/0", "input_photos/1"}

Folder(root) ==
    IF root = "input_photos" THEN Paths
    ELSE IF root = "input_photos/0" THEN {p \in Paths : DirOf(p) = 0}
    ELSE {p \in Paths : DirOf(p) = 1}

----------------------------------------------------------------------------
(* Program constants *)

SecondsPerDay == 86400

ResDivisor == 10000

SimDefault == 16

RadDefault == 10

BlurDefault == 60

(* The two sliders of the Detect sidebar (Hash Distance 0..30, Time Radius *)
(* 1..30 days), restricted to a few positions: <<sim_thresh, time_rad>>.   *)
Settings == {<<0, 1>>, <<1, 1>>, <<1, RadDefault>>, <<SimDefault, RadDefault>>}

----------------------------------------------------------------------------
(* File contents.  A perceptual hash is kept as its hex text (a sequence   *)
(* of hex digits, here one digit = 4 bits); exif is {} when the file has   *)
(* no usable capture date and {t} when it has one.                         *)

T0 == 1000 * SecondsPerDay

KindA == [ok |-> TRUE, phash |-> <<0>>, exif |-> {T0}, sharp |-> 10, w |-> 100, h |-> 100, sat |-> 40]

KindB == [ok |-> TRUE, phash |-> <<1>>, exif |-> {T0 + 5 * SecondsPerDay}, sharp |-> 50, w |-> 100, h |-> 100, sat |-> 40]

KindC == [ok |-> TRUE, phash |-> <<3>>, exif |-> {}, sharp |-> 50, w |-> 200, h |-> 100, sat |-> 60]

KindD == [ok |-> TRUE, phash |-> <<1>>, exif |-> {T0}, sharp |-> 50, w |-> 100, h |-> 100, sat |-> 40]

(* An EXIF date of 1970:01:01 00:00:00 (UTC), and one of before 1970, for   *)
(* which datetime.timestamp() is negative.                                  *)
KindE == [ok |-> TRUE, phash |-> <<0>>, exif |-> {0}, sharp |-> 10, w |-> 100, h |-> 100, sat |-> 40]

KindP == [ok |-> TRUE, phash |-> <<1>>, exif |-> {0 - 2000 * SecondsPerDay}, sharp |-> 50, w |-> 100, h |-> 100, sat |-> 40]

(* A copy of the photo of KindA that has lost its EXIF data. *)
KindU == [ok |-> TRUE, phash |-> <<0>>, exif |-> {}, sharp |-> 10, w |-> 100, h |-> 100, sat |-> 40]

(* A copy of the photo of KindB that has lost its EXIF data. *)
KindM == [ok |-> TRUE, phash |-> <<1>>, exif |-> {}, sharp |-> 50, w |-> 100, h |-> 100, sat |-> 40]

KindX == [ok |-> FALSE, phash |-> <<>>, exif |-> {}, sharp |-> 0, w |-> 0, h |-> 0, sat |-> 0]

(* What the file at path p may be: in sub-folder 1 a dated photo or an      *)
(* undated edit of it (2 bits off), in sub-folder 0 a shot taken five days  *)
(* later (1 bit off either) or a broken file.                              *)
FileKinds(p) == IF DirOf(p) = 1 THEN {KindA, KindC} ELSE {KindB, KindX}

(* The photos of the folders that the detection alone is run on.           *)
ClusterKinds == {KindA, KindB, KindC, KindD}

Folders == {f \in [Paths -> {KindA, KindB, KindC, KindX}] : \A p \in Paths : f[p] \in FileKinds(p)}

get_timestamp(p) ==
    IF meta[p].exif = {} THEN 0
    ELSE CHOOSE t \in meta[p].exif : TRUE

(* analyze_image: {} on failure (None), else the tuple to insert. *)
analyze_image(p) ==
    IF ~meta[p].ok THEN {}
    ELSE { [path |-> p, phash |-> meta[p].phash, timestamp |-> get_timestamp(p),
            sharpness |-> meta[p].sharp, width |-> meta[p].w, height |-> meta[p].h] }

----------------------------------------------------------------------------
(* Sequences helpers *)

Range(s) == {s[i] : i \in 1..Len(s)}

Perms(S) == {f \in [1..Cardinality(S) -> S] : \A i, j \in 1..Cardinality(S) : f[i] = f[j] => i = j}

Abs(x) == IF x < 0 THEN -x ELSE x

----------------------------------------------------------------------------
(* Table images *)

existing_paths == {images[i].path : i \in 1..Len(images)}

ImageIds(tbl) == {tbl[i].id : i \in 1..Len(tbl)}

MaxId(tbl) == IF tbl = <<>> THEN 0 ELSE CHOOSE m \in ImageIds(tbl) : \A x \in ImageIds(tbl) : x <= m

NewRow(tbl, t) ==
    [id |-> MaxId(tbl) + 1, path |-> t.path, phash |-> t.phash, timestamp |-> t.timestamp,
     sharpness |-> t.sharpness, width |-> t.width, height |-> t.height, status |-> "NEW"]

(* INSERT OR REPLACE: the row of that path is deleted and a new one added. *)
InsertOrIgnore_Replace(tbl, t) ==
    LET rest == SelectSeq(tbl, LAMBDA row : row.path # t.path)
    IN  Append(rest, NewRow(rest, t))

(* An INSERT into a table whose path column is not UNIQUE. *)
InsertOrIgnore_Duplicate(tbl, t) == Append(tbl, NewRow(tbl, t))

(* INSERT OR IGNORE INTO images (path, ...) VALUES t: path is UNIQUE. *)
InsertOrIgnore(tbl, t) ==
    IF \E i \in 1..Len(tbl) : tbl[i].path = t.path THEN tbl
    ELSE Append(tbl, NewRow(tbl, t))

RECURSIVE ExecuteMany(_, _)
ExecuteMany(tbl, batch) ==
    IF batch = <<>> THEN tbl
    ELSE ExecuteMany(InsertOrIgnore(tbl, Head(batch)), Tail(batch))

PathOfId(id) ==
    LET S == {i \in 1..Len(images) : images[i].id = id}
    IN  IF S = {} THEN {} ELSE {images[CHOOSE i \in S : TRUE].path}

----------------------------------------------------------------------------
(* 1. Ingest: "Scan & Add to Library" *)

(* A crawl that does not look at existing_paths. *)
files_to_process_All(root) == Folder(root) \cap lib

(* The crawl: the files under scan_path that are not in existing_paths. *)
files_to_process(root) == {p \in Folder(root) \cap lib : p \notin existing_paths}

(* batch_data: the results that are not None (their order is the order in  *)
(* which the futures complete, chosen when the batch is saved).            *)
batch_data(todo) == {p \in todo : analyze_image(p) # {}}

Idle == pc = "idle" /\ \A s \in Sessions : ~ing[s].active

NoRun == [active |-> FALSE, root |-> "", todo |-> {}]

NoParams == [sim |-> 0, rad |-> 0, considered |-> {}, orphans |-> {}]

(* No tool but the app and its review is open; the review shows its first  *)
(* page (session_state.page).                                              *)
NoUi == [tool |-> "app", page |-> 0]

(* The record kept in last.  ignored: the tuples that the INSERT OR IGNORE *)
(* of an ingestion did not insert.                                         *)
Done(op, out, root, ignored, params) ==
    [op |-> op, out |-> out, root |-> root, ignored |-> ignored,
     sim |-> params.sim, rad |-> params.rad,
     considered |-> params.considered, orphans |-> params.orphans]

(* Lines 99-147: read the catalog, crawl, analyze every unindexed file.    *)
(* With nothing to process the handler ends here ("No new images found."). *)
IngestScan(s, root) ==
    /\ pc = "idle"
    /\ ~ing[s].active
    /\ s = "tab2" => ing["tab1"].active
    /\ LET todo == files_to_process(root)
       IN  IF todo = {}
           THEN /\ ing' = ing
                /\ last' = last
           ELSE /\ ing' = [ing EXCEPT ![s] = [active |-> TRUE, root |-> root, todo |-> todo]]
                /\ last' = last
    /\ UNCHANGED <<ui, meta, lib, keepers, discards, images, clusters, pc, txn, pending,
                   run>>

(* Lines 149-153: one executemany and one commit. *)
IngestSave(s) ==
    /\ ing[s].active
    /\ \E order \in Perms(batch_data(ing[s].todo)) :
          LET batch == [i \in 1..Len(order) |-> CHOOSE t \in analyze_image(order[i]) : TRUE]
          IN  images' = ExecuteMany(images, batch)
    /\ ing' = [ing EXCEPT ![s] = NoRun]
    /\ last' = Done("ingest", "Added", ing[s].root,
                     Cardinality(batch_data(ing[s].todo)) - (Len(images') - Len(images)),
                     NoParams)
    /\ UNCHANGED <<ui, meta, lib, keepers, discards, clusters, pc, txn, pending, run>>

(* 1a. The same handler with its thread pool: lines 131-153, step by step.  *)
(* ing["tab1"] then also holds the futures in the order of their submit,   *)
(* how many of them a worker has started, those being analyzed, those      *)
(* finished, those that as_completed has yielded, and batch_data.          *)

(* Positions of the "Threads" slider (1..16). *)
Threads == {1, 2}

(* A buffer that keeps the latest result only. *)
AppendResult_Overwrite(batch, res) ==
    IF res = {} THEN batch ELSE <<CHOOSE t \in res : TRUE>>

(* Lines 135-136: res = future.result(); if res: batch_data.append(res) *)
AppendResult(batch, res) ==
    IF res = {} THEN batch ELSE Append(batch, CHOOSE t \in res : TRUE)

(* Lines 99-133: read the catalog, crawl, and submit one future per file,  *)
(* in the order of the crawl, to a pool of that many workers.              *)
PoolSubmit(root, workers) ==
    /\ pc = "idle"
    /\ ~ing["tab1"].active
    /\ LET todo == files_to_process(root)
       IN  IF todo = {}
           THEN ing' = ing
           ELSE \E walk \in Perms(todo) :
                   ing' = [ing EXCEPT !["tab1"] =
                              [active |-> TRUE, root |-> root, todo |-> todo,
                               workers |-> workers, submitted |-> walk, started |-> 0,
                               running |-> {}, finished |-> {}, yielded |-> {},
                               batch |-> <<>>]]
    /\ UNCHANGED <<ui, meta, lib, keepers, discards, images, clusters, pc, txn, pending,
                   run, last>>

(* A free worker thread takes the next future of the work queue. *)
WorkerStart ==
    /\ ing["tab1"].active
    /\ ing["tab1"].started < Len(ing["tab1"].submitted)
    /\ Cardinality(ing["tab1"].running) < ing["tab1"].workers
    /\ ing' = [ing EXCEPT !["tab1"].started = @ + 1,
                          !["tab1"].running =
                              @ \cup {ing["tab1"].submitted[ing["tab1"].started + 1]}]
    /\ UNCHANGED <<ui, meta, lib, keepers, discards, images, clusters, pc, txn, pending,
                   run, last>>

(* analyze_image(p) returns in its worker thread: the future is done. *)
WorkerFinish(p) ==
    /\ ing["tab1"].active
    /\ p \in ing["tab1"].running
    /\ ing' = [ing EXCEPT !["tab1"].running = @ \ {p},
                          !["tab1"].finished = @ \cup {p}]
    /\ UNCHANGED <<ui, meta, lib, keepers, discards, images, clusters, pc, txn, pending,
                   run, last>>

(* Lines 134-136: as_completed yields, in the main thread, a done future   *)
(* it has not yielded yet.                                                 *)
Collect(p) ==
    /\ ing["tab1"].active
    /\ p \in ing["tab1"].finished \ ing["tab1"].yielded
    /\ ing' = [ing EXCEPT !["tab1"].yielded = @ \cup {p},
                          !["tab1"].batch = AppendResult(@, analyze_image(p))]
    /\ UNCHANGED <<ui, meta, lib, keepers, discards, images, clusters, pc, txn, pending,
                   run, last>>

(* Lines 149-153, once as_completed has yielded every future. *)
PoolSave ==
    /\ ing["tab1"].active
    /\ ing["tab1"].yielded = ing["tab1"].todo
    /\ images' = ExecuteMany(images, ing["tab1"].batch)
    /\ ing' = [ing EXCEPT !["tab1"] = NoRun]
    /\ last' = Done("ingest", "Added", ing["tab1"].root,
                     Len(ing["tab1"].batch) - (Len(images') - Len(images)), NoParams)
    /\ UNCHANGED <<ui, meta, lib, keepers, discards, clusters, pc, txn, pending, run>>

----------------------------------------------------------------------------
(* 2. Detect: "Find Global Duplicates" *)

HexBits(d) == <<(d \div 8) % 2, (d \div 4) % 2, (d \div 2) % 2, d % 2>>

(* imagehash.hex_to_hash: the bits of the hex text, most significant first. *)
RECURSIVE hex_to_hash(_)
hex_to_hash(hex) ==
    IF hex = <<>> THEN <<>> ELSE HexBits(Head(hex)) \o hex_to_hash(Tail(hex))

(* ImageHash.__sub__: the number of differing bits. *)
HashDiff(a, b) == Cardinality({i \in 1..Len(a) : a[i] # b[i]})

(* Lines 176-181.  score is r[4] + r[5]*r[6]/10000; it is kept here times   *)
(* 10000, which orders the rows the same way.                              *)
DataObj(r) ==
    [id |-> r.id, path |-> r.path, hash |-> hex_to_hash(r.phash), ts |-> r.timestamp,
     score |-> r.sharpness * ResDivisor + r.width * r.height]

(* list.sort(key = ts) is stable: x goes behind every element with ts <= x.ts. *)
RECURSIVE InsertByTs(_, _)
InsertByTs(sorted, x) ==
    IF sorted = <<>> THEN <<x>>
    ELSE IF sorted[Len(sorted)].ts <= x.ts THEN Append(sorted, x)
    ELSE Append(InsertByTs(SubSeq(sorted, 1, Len(sorted) - 1), x), sorted[Len(sorted)])

RECURSIVE SortByTs(_)
SortByTs(objs) ==
    IF objs = <<>> THEN <<>>
    ELSE InsertByTs(SortByTs(SubSeq(objs, 1, Len(objs) - 1)), objs[Len(objs)])

(* A parser that reads any character as a hex digit. *)
Decodes_Any(r) == TRUE

(* Lines 174-182: the try block raises, and the row is passed over, when   *)
(* hex_to_hash cannot parse the text of column phash.                      *)
Decodes(r) == \A i \in 1..Len(r.phash) : r.phash[i] \in 0..15

data_objs(rows) ==
    LET decoded == SelectSeq(rows, Decodes)
    IN  SortByTs([i \in 1..Len(decoded) |-> DataObj(decoded[i])])

(* A gate that does not look whether both timestamps are set. *)
TimeBreak_NoGuard(a, b, time_rad) == Abs(a.ts - b.ts) > time_rad * SecondsPerDay

(* Lines 203-205: the time gate, which ends the inner scan. *)
TimeBreak(a, b, time_rad) ==
    a.ts > 0 /\ b.ts > 0 /\ Abs(a.ts - b.ts) > time_rad * SecondsPerDay

(* A strict comparison in place of line 207's <=. *)
HashMatch_Strict(a, b, sim_thresh) == HashDiff(a.hash, b.hash) < sim_thresh

(* Line 207 *)
HashMatch(a, b, sim_thresh) == HashDiff(a.hash, b.hash) <= sim_thresh

(* A scan that forgets to mark the asset it has just grouped. *)
MarkVisited_Forget(visited, id) == visited

(* Line 209: visited.add(img_b['id']) *)
MarkVisited(visited, id) == visited \cup {id}

(* A scan that compares with the member added last. *)
Anchor_Last(a, current_cluster) == current_cluster[Len(current_cluster)]

(* Line 207: every img_b is compared with img_a, the seed of the group. *)
Anchor(a, current_cluster) == a

(* Lines 199-209: the inner loop from position j for seed a. *)
RECURSIVE InnerScan(_, _, _, _, _, _, _)
InnerScan(objs, a, j, current_cluster, visited, sim_thresh, time_rad) ==
    IF j > Len(objs) THEN [cluster |-> current_cluster, visited |-> visited]
    ELSE LET b == objs[j] IN
         IF b.id \in visited
         THEN InnerScan(objs, a, j + 1, current_cluster, visited, sim_thresh, time_rad)
         ELSE IF TimeBreak(a, b, time_rad)
         THEN [cluster |-> current_cluster, visited |-> visited]
         ELSE IF HashMatch(Anchor(a, current_cluster), b, sim_thresh)
         THEN InnerScan(objs, a, j + 1, Append(current_cluster, b), MarkVisited(visited, b.id),
                        sim_thresh, time_rad)
         ELSE InnerScan(objs, a, j + 1, current_cluster, visited, sim_thresh, time_rad)

(* A scan that keeps every group. *)
IsCluster_Any(current_cluster) == Len(current_cluster) > 0

(* Line 211: only a group of two or more is kept. *)
IsCluster(current_cluster) == Len(current_cluster) > 1

(* Lines 192-212: the outer loop from position i.  A group of one is       *)
(* dropped by the program; it is recorded here as an orphan.               *)
RECURSIVE OuterScan(_, _, _, _, _, _, _)
OuterScan(objs, i, found, orphans, visited, sim_thresh, time_rad) ==
    IF i > Len(objs) THEN [clusters |-> found, orphans |-> orphans]
    ELSE IF objs[i].id \in visited
    THEN OuterScan(objs, i + 1, found, orphans, visited, sim_thresh, time_rad)
    ELSE LET r == InnerScan(objs, objs[i], i + 1, <<objs[i]>>, visited \cup {objs[i].id},
                            sim_thresh, time_rad)
         IN  IF IsCluster(r.cluster)
             THEN OuterScan(objs, i + 1, Append(found, r.cluster), orphans, r.visited,
                            sim_thresh, time_rad)
             ELSE OuterScan(objs, i + 1, found, orphans \cup {objs[i].id}, r.visited,
                            sim_thresh, time_rad)

FindClusters(rows, sim_thresh, time_rad) ==
    OuterScan(data_objs(rows), 1, <<>>, {}, {}, sim_thresh, time_rad)

(* A selection of the member of least score. *)
Winner_Lowest(clust) ==
    clust[CHOOSE i \in 1..Len(clust) :
            /\ \A j \in 1..Len(clust) : clust[j].score >= clust[i].score
            /\ \A j \in 1..(i - 1) : clust[j].score > clust[i].score]

(* A selection of the last member of maximal score. *)
Winner_LastMax(clust) ==
    clust[CHOOSE i \in 1..Len(clust) :
            /\ \A j \in 1..Len(clust) : clust[j].score <= clust[i].score
            /\ \A j \in (i + 1)..Len(clust) : clust[j].score < clust[i].score]

(* Line 223: max(clust, key = score) is the first member of maximal score. *)
Winner(clust) ==
    clust[CHOOSE i \in 1..Len(clust) :
            /\ \A j \in 1..Len(clust) : clust[j].score <= clust[i].score
            /\ \A j \in 1..(i - 1) : clust[j].score < clust[i].score]

(* Line 226: the row of one member; c_idx counts the clusters from 0. *)
ClusterRow(c_idx, item, winner) ==
    [cluster_id |-> c_idx, image_id |-> item.id, is_winner |-> (item = winner)]

(* Lines 222-227: the rows in the order of their INSERTs. *)
RECURSIVE RowsToInsert(_, _)
RowsToInsert(found, k) ==
    IF k > Len(found) THEN <<>>
    ELSE [m \in 1..Len(found[k]) |-> ClusterRow(k - 1, found[k][m], Winner(found[k]))]
         \o RowsToInsert(found, k + 1)

(* A connection in autocommit mode, where every statement is visible to    *)
(* the other connections at once.                                          *)
ReadByOthers_Autocommit(committed, working) == working

(* What a connection other than the writer reads while the writer's        *)
(* transaction is open.  sqlite3.connect() leaves isolation_level at its   *)
(* default, so the DELETE of line 220 opens a transaction that only the    *)
(* commit of line 228 ends: until then the committed rows are read.        *)
ReadByOthers(committed, working) == committed

(* A run that leaves the old rows in place. *)
DeleteAll_Skip(tbl) == tbl

(* Line 220: DELETE FROM clusters *)
DeleteAll(tbl) == <<>>

(* Lines 164-220: load the catalog, cluster, open the write connection and *)
(* DELETE FROM clusters.  An empty library stops the handler at line 171.  *)
ReclusterStart(sim_thresh, time_rad) ==
    /\ Idle
    /\ IF images = <<>>
       THEN UNCHANGED <<clusters, pc, txn, pending, run>>
       ELSE LET r == FindClusters(images, sim_thresh, time_rad)
            IN  /\ pending' = RowsToInsert(r.clusters, 1)
                /\ txn' = DeleteAll(clusters)
                /\ pc' = "writing"
                /\ run' = [sim |-> sim_thresh, rad |-> time_rad,
                           considered |-> ImageIds(SelectSeq(images, Decodes)),
                           orphans |-> r.orphans]
                /\ clusters' = ReadByOthers(clusters, txn')
    /\ UNCHANGED <<ui, meta, lib, keepers, discards, images, ing, last>>

(* Line 226: the next INSERT. *)
ReclusterInsert ==
    /\ pc = "writing"
    /\ pending # <<>>
    /\ txn' = Append(txn, Head(pending))
    /\ pending' = Tail(pending)
    /\ clusters' = ReadByOthers(clusters, txn')
    /\ UNCHANGED <<ui, meta, lib, keepers, discards, images, ing, pc, run, last>>

(* Line 228: conn.commit() after the last INSERT. *)
ReclusterCommit ==
    /\ pc = "writing"
    /\ pending = <<>>
    /\ clusters' = txn
    /\ pc' = "idle"
    /\ txn' = <<>>
    /\ run' = NoParams
    /\ last' = Done("recluster", "commit", "", 0, run)
    /\ UNCHANGED <<ui, meta, lib, keepers, discards, images, ing, pending>>

(* The process dies inside the transaction: SQLite rolls the journal back. *)
Crash ==
    /\ pc = "writing"
    /\ pc' = "idle"
    /\ txn' = <<>>
    /\ pending' = <<>>
    /\ run' = NoParams
    /\ UNCHANGED <<ui, meta, lib, keepers, discards, images, clusters, ing, last>>

----------------------------------------------------------------------------
(* 2a. The save of Ingest, lines 149-153, statement by statement: it runs   *)
(* the INSERTs of executemany in a transaction the first one opens, and    *)
(* the process may die at any point of the run.  ing["tab1"] then also     *)
(* holds the tuples still to insert and table images as the writing        *)
(* connection sees it.                                                     *)
SaveBegin ==
    /\ ing["tab1"].active
    /\ "work" \notin DOMAIN ing["tab1"]
    /\ \E order \in Perms(batch_data(ing["tab1"].todo)) :
          ing' = [ing EXCEPT !["tab1"] =
                     [active |-> TRUE, root |-> ing["tab1"].root, todo |-> ing["tab1"].todo,
                      batch |-> [i \in 1..Len(order) |->
                                    CHOOSE t \in analyze_image(order[i]) : TRUE],
                      work |-> images]]
    /\ UNCHANGED <<ui, meta, lib, keepers, discards, images, clusters, pc, txn, pending,
                   run, last>>

SaveInsert ==
    /\ ing["tab1"].active
    /\ "work" \in DOMAIN ing["tab1"]
    /\ ing["tab1"].batch # <<>>
    /\ ing' = [ing EXCEPT !["tab1"].batch = Tail(@),
                          !["tab1"].work = InsertOrIgnore(@, Head(ing["tab1"].batch))]
    /\ images' = ReadByOthers(images, ing'["tab1"].work)
    /\ UNCHANGED <<ui, meta, lib, keepers, discards, clusters, pc, txn, pending, run, last>>

SaveCommit ==
    /\ ing["tab1"].active
    /\ "work" \in DOMAIN ing["tab1"]
    /\ ing["tab1"].batch = <<>>
    /\ images' = ing["tab1"].work
    /\ ing' = [ing EXCEPT !["tab1"] = NoRun]
    /\ last' = Done("ingest", "Added", ing["tab1"].root,
                     Cardinality(batch_data(ing["tab1"].todo)) - (Len(images') - Len(images)),
                     NoParams)
    /\ UNCHANGED <<ui, meta, lib, keepers, discards, clusters, pc, txn, pending, run>>

(* The process dies during the analysis or inside the transaction, which   *)
(* SQLite then rolls back.                                                 *)
IngestCrash ==
    /\ ing["tab1"].active
    /\ ing' = [ing EXCEPT !["tab1"] = NoRun]
    /\ last' = Done("ingest", "crash", ing["tab1"].root, 0, NoParams)
    /\ UNCHANGED <<ui, meta, lib, keepers, discards, images, clusters, pc, txn, pending, run>>

----------------------------------------------------------------------------
(* 3. Review (investigator.py) *)

ClusterIds(tbl) == {tbl[i].cluster_id : i \in 1..Len(tbl)}

SelectRows(tbl, cid) == SelectSeq(tbl, LAMBDA row : row.cluster_id = cid)

(* Lines 191-194: clusters JOIN images for one cluster id; item[0] is the path. *)
RECURSIVE JoinPaths(_)
JoinPaths(rows) ==
    IF rows = <<>> THEN <<>>
    ELSE LET ps == PathOfId(Head(rows).image_id)
         IN  (IF ps = {} THEN <<>> ELSE <<CHOOSE q \in ps : TRUE>>) \o JoinPaths(Tail(rows))

Items(cid) == JoinPaths(SelectRows(clusters, cid))

(* A DELETE without its WHERE clause. *)
dissolve_cluster_All(tbl, cluster_id) == <<>>

(* A DELETE of the rows up to that cluster id. *)
dissolve_cluster_UpTo(tbl, cluster_id) == SelectSeq(tbl, LAMBDA row : row.cluster_id > cluster_id)

(* Lines 89-93 *)
dissolve_cluster(tbl, cluster_id) == SelectSeq(tbl, LAMBDA row : row.cluster_id # cluster_id)

(* shutil.move(p, dir/basename(p)): a file of that name in dir is replaced. *)
MoveInto(dir, p) == {q \in dir : BaseName(q) # BaseName(p)} \cup {p}

(* Line 105: which members go to Discards. *)
IsLoser(path, keep_path, present) == path # keep_path /\ path \in present

(* Lines 103-106: the loop over cluster_items, on the files present.       *)
RECURSIVE MoveLosers(_, _, _, _)
MoveLosers(items, keep_path, present, disc) ==
    IF items = <<>> THEN [lib |-> present, discards |-> disc]
    ELSE IF IsLoser(Head(items), keep_path, present)
    THEN MoveLosers(Tail(items), keep_path, present \ {Head(items)}, MoveInto(disc, Head(items)))
    ELSE MoveLosers(Tail(items), keep_path, present, disc)

(* Lines 95-107.  Moving a keep_path that has no file raises at line 98.    *)
keep_one(keep_path, cluster_items, cluster_id) ==
    /\ Idle
    /\ IF keep_path \notin lib
       THEN /\ last' = Done("keep_one", "FileNotFoundError", "", 0, NoParams)
            /\ UNCHANGED <<lib, keepers, discards, clusters>>
       ELSE LET r == MoveLosers(cluster_items, keep_path, lib \ {keep_path}, discards)
            IN  /\ keepers' = MoveInto(keepers, keep_path)
                /\ lib' = r.lib
                /\ discards' = r.discards
                /\ clusters' = dissolve_cluster(clusters, cluster_id)
                /\ last' = Done("keep_one", "Sorted!", "", 0, NoParams)
    /\ UNCHANGED <<ui, meta, images, ing, pc, txn, pending, run>>

(* Lines 204-207: the "Keep All" button of a listed cluster. *)
KeepAll(cid) ==
    /\ Idle
    /\ cid \in ClusterIds(clusters)
    /\ clusters' = dissolve_cluster(clusters, cid)
    /\ last' = Done("dissolve", "Dissolved.", "", 0, NoParams)
    /\ UNCHANGED <<ui, meta, lib, keepers, discards, images, ing, pc, txn, pending, run>>

(* Lines 209-221: the "Keep This Only" button under one item of a listed cluster. *)
KeepThisOnly(cid, path) ==
    /\ cid \in ClusterIds(clusters)
    /\ path \in Range(Items(cid))
    /\ keep_one(path, Items(cid), cid)

(* keep_one called as a function, with any path and any cluster id. *)
CidRange == 0..(NFiles \div 2)

CallKeepOne(cid, path) == keep_one(path, Items(cid), cid)

(* The cluster ids dissolve_cluster is called with as a function: those a   *)
(* detection run can have written and one more.                            *)
DissolveIds == 0..((NFiles + 1) \div 2)

(* Lines 89-93 called with any cluster id: one DELETE, commit, close. *)
CallDissolve(cid) ==
    /\ Idle
    /\ clusters' = dissolve_cluster(clusters, cid)
    /\ last' = Done("dissolve_cluster", "returned", "", 0, NoParams)
    /\ UNCHANGED <<ui, meta, lib, keepers, discards, images, ing, pc, txn, pending, run>>

----------------------------------------------------------------------------
(* 3a. v15.6_sniper.py: resolve every cluster that involves a file-name     *)
(* prefix, keeping the member whose name sorts first.                      *)

(* Lines 32-39: (year, seq) of the file name; a name of the model is its key. *)
extract_sort_key(p) == BaseName(p)

(* Line 124: paths.sort(key = extract_sort_key), a stable sort. *)
RECURSIVE SortedPaths(_, _)
SortedPaths(paths, k) ==
    IF k > BaseName(NFiles + 1) THEN <<>>
    ELSE SelectSeq(paths, LAMBDA p : extract_sort_key(p) = k) \o SortedPaths(paths, k + 1)

(* Lines 154-162, cluster after cluster: a move that raises is passed over. *)
RECURSIVE FireAll(_, _, _, _)
FireAll(cids, present, keep, disc) ==
    IF cids = {} THEN [lib |-> present, keepers |-> keep, discards |-> disc]
    ELSE LET cid == CHOOSE c \in cids : \A d \in cids : c <= d
             paths == SortedPaths(Items(cid), 1)
             winner == Head(paths)
             r == MoveLosers(Tail(paths), winner, present \ {winner}, disc)
         IN  FireAll(cids \ {cid}, r.lib,
                     IF winner \in present THEN MoveInto(keep, winner) ELSE keep,
                     r.discards)

(* What the operator may type at the prompts of the sniper, character by   *)
(* character: at "Enter ID or PREFIX" and at "Type 'fire' to execute".      *)
Choices == {<<"1">>, <<"2">>, <<"1", "9">>, <<"a", "b">>, <<"Q">>, <<"x">>}

Answers == {<<"f", "i", "r", "e">>, <<"F", "i", "R", "e">>, <<"f">>, <<"f", "i", "r", "e", " ">>}

(* str.lower() on the letters the operator's inputs are made of. *)
lower(text) ==
    [i \in 1..Len(text) |->
        CASE text[i] = "F" -> "f"
          [] text[i] = "I" -> "i"
          [] text[i] = "R" -> "r"
          [] text[i] = "E" -> "e"
          [] text[i] = "Q" -> "q"
          [] OTHER -> text[i]]

(* Any answer that starts with an f. *)
Confirmed_Prefix(confirm) == confirm # <<>> /\ lower(confirm)[1] = "f"

(* Line 141, negated: confirm.lower() == 'fire'. *)
Confirmed(confirm) == lower(confirm) = <<"f", "i", "r", "e">>

(* Lines 136-167; cluster_data: the clusters that scout_target lists for    *)
(* the chosen prefix, confirm: the answer to "Type 'fire' to execute".     *)
fire_sniper(cluster_data, confirm) ==
    /\ Idle
    /\ cluster_data # {}
    /\ cluster_data \subseteq ClusterIds(clusters)
    /\ \A cid \in cluster_data : Items(cid) # <<>>
    /\ IF Confirmed(confirm)
       THEN /\ LET r == FireAll(cluster_data, lib, keepers, discards)
               IN  /\ lib' = r.lib
                   /\ keepers' = r.keepers
                   /\ discards' = r.discards
            /\ clusters' = SelectSeq(clusters, LAMBDA row : row.cluster_id \notin cluster_data)
            /\ last' = Done("fire_sniper", "Done.", "", 0, NoParams)
       ELSE /\ last' = Done("fire_sniper", "Aborted.", "", 0, NoParams)
            /\ UNCHANGED <<lib, keepers, discards, clusters>>
    /\ UNCHANGED <<meta, images, ing, pc, txn, pending, run>>

----------------------------------------------------------------------------
(* 3b. v17_blur_buster.py and v16_librarian.py: files leave the photo      *)
(* folder for Blurry_Trash or archived_documents (folders the model does   *)
(* not follow) and their rows leave table images.                          *)

(* Positions of the "Max Sharpness Score" slider (0..500). *)
BlurSettings == {30, BlurDefault}

(* A DELETE without its WHERE clause. *)
DeleteImages_All(tbl, moved) == <<>>

(* DELETE FROM images WHERE path = ?, for every file that was moved. *)
DeleteImages(tbl, moved) == SelectSeq(tbl, LAMBDA row : row.path \notin moved)

(* v17 lines 36-92: Find Blurry Images, "Keep" on some candidates, Move to  *)
(* Trash.  A candidate is a row below the threshold whose file exists.     *)
MoveToTrash(threshold, kept) ==
    /\ Idle
    /\ LET blur_candidates == {images[i].path : i \in {k \in 1..Len(images) :
                                       images[k].sharpness < threshold}} \cap lib
           moved == blur_candidates \ kept
       IN  /\ moved # {}
           /\ lib' = lib \ moved
           /\ images' = DeleteImages(images, moved)
    /\ last' = Done("trash", "Moved", "", 0, NoParams)
    /\ UNCHANGED <<ui, meta, keepers, discards, clusters, ing, pc, txn, pending, run>>

(* v16 lines 84-164: Scan for Documents, Move ALL to Archive; docs: the    *)
(* indexed files that is_document_candidate has picked.  A file that is    *)
(* gone cannot be moved and keeps its row.                                 *)
MoveToArchive(docs) ==
    /\ Idle
    /\ docs # {}
    /\ docs \subseteq existing_paths
    /\ lib' = lib \ docs
    /\ images' = DeleteImages(images, docs \cap lib)
    /\ last' = Done("archive", "Moved", "", 0, NoParams)
    /\ UNCHANGED <<ui, meta, keepers, discards, clusters, ing, pc, txn, pending, run>>

----------------------------------------------------------------------------
(* 4. The report of v8_cached.py: no catalog, the clustering runs on the    *)
(* analyzed files and its result is the report; table clusters stands for  *)
(* the report here, a row's image_id being the path of the file.           *)

V8Floor == 10

(* Lines 60-87: None ({}) for a file that cannot be read.  total_score is   *)
(* sharpness + res + saturation*0.5; it is kept here times 2.              *)
calculate_stats(p) ==
    IF ~meta[p].ok THEN {}
    ELSE { [path |-> p, hash_obj |-> hex_to_hash(meta[p].phash), date |-> meta[p].exif,
            total_score |-> 2 * (meta[p].sharp + (meta[p].h * meta[p].w) \div ResDivisor)
                            + meta[p].sat] }

(* Lines 89-93: timedelta.days is the floor of the difference in days. *)
are_time_compatible_strict(data_a, data_b, radius) ==
    IF data_a.date = {} \/ data_b.date = {} THEN FALSE
    ELSE LET dt_a == CHOOSE t \in data_a.date : TRUE
             dt_b == CHOOSE t \in data_b.date : TRUE
         IN  Abs((dt_a - dt_b) \div SecondsPerDay) <= radius

(* Line 200: sort(key = total_score, reverse = True) is stable. *)
RECURSIVE InsertByScore(_, _)
InsertByScore(sorted, x) ==
    IF sorted = <<>> THEN <<x>>
    ELSE IF sorted[Len(sorted)].total_score >= x.total_score THEN Append(sorted, x)
    ELSE Append(InsertByScore(SubSeq(sorted, 1, Len(sorted) - 1), x), sorted[Len(sorted)])

RECURSIVE SortByScore(_)
SortByScore(objs) ==
    IF objs = <<>> THEN <<>>
    ELSE InsertByScore(SortByScore(SubSeq(objs, 1, Len(objs) - 1)), objs[Len(objs)])

(* Lines 213-217: the match decision. *)
V8Match(img_a, img_b, sim_threshold, search_radius) ==
    LET sim == HashDiff(img_a.hash_obj, img_b.hash_obj)
    IN  \/ sim <= V8Floor
        \/ sim <= sim_threshold /\ are_time_compatible_strict(img_a, img_b, search_radius)

(* Lines 211-220: the inner loop, over the whole list. *)
RECURSIVE V8Inner(_, _, _, _, _, _, _)
V8Inner(list, img_a, j, current_cluster, visited, sim_threshold, search_radius) ==
    IF j > Len(list) THEN [cluster |-> current_cluster, visited |-> visited]
    ELSE IF list[j].path \in visited
    THEN V8Inner(list, img_a, j + 1, current_cluster, visited, sim_threshold, search_radius)
    ELSE IF V8Match(img_a, list[j], sim_threshold, search_radius)
    THEN V8Inner(list, img_a, j + 1, Append(current_cluster, list[j]),
                 visited \cup {list[j].path}, sim_threshold, search_radius)
    ELSE V8Inner(list, img_a, j + 1, current_cluster, visited, sim_threshold, search_radius)

(* Lines 207-223: the outer loop. *)
RECURSIVE V8Outer(_, _, _, _, _, _)
V8Outer(list, i, found, visited, sim_threshold, search_radius) ==
    IF i > Len(list) THEN found
    ELSE IF list[i].path \in visited
    THEN V8Outer(list, i + 1, found, visited, sim_threshold, search_radius)
    ELSE LET r == V8Inner(list, list[i], 1, <<list[i]>>, visited \cup {list[i].path},
                          sim_threshold, search_radius)
         IN  V8Outer(list, i + 1,
                     IF Len(r.cluster) > 1 THEN Append(found, r.cluster) ELSE found,
                     r.visited, sim_threshold, search_radius)

(* Line 232: max(cluster, key = total_score), the first of maximal score. *)
V8Winner(cluster) ==
    cluster[CHOOSE i \in 1..Len(cluster) :
               /\ \A j \in 1..Len(cluster) : cluster[j].total_score <= cluster[i].total_score
               /\ \A j \in 1..(i - 1) : cluster[j].total_score < cluster[i].total_score]

(* Lines 231-242: the members of the clusters, in order, winner flagged. *)
RECURSIVE V8Rows(_, _)
V8Rows(found, k) ==
    IF k > Len(found) THEN <<>>
    ELSE [m \in 1..Len(found[k]) |->
            [cluster_id |-> k - 1, image_id |-> found[k][m].path,
             is_winner |-> (found[k][m] = V8Winner(found[k]))]]
         \o V8Rows(found, k + 1)

(* Lines 237, 248: shutil.copy2 into Keep or Discard, in the order of the   *)
(* rows and then of the files in no cluster.                               *)
RECURSIVE V8Copy(_, _, _, _)
V8Copy(rows, singles, keep, disc) ==
    IF rows # <<>>
    THEN IF Head(rows).is_winner
         THEN V8Copy(Tail(rows), singles, MoveInto(keep, Head(rows).image_id), disc)
         ELSE V8Copy(Tail(rows), singles, keep, MoveInto(disc, Head(rows).image_id))
    ELSE IF singles # <<>>
    THEN V8Copy(rows, Tail(singles), MoveInto(keep, Head(singles)), disc)
    ELSE [keep |-> keep, discard |-> disc]

(* Lines 199-242: the clusters of the report for the files in the order    *)
(* walk and the sliders at sim_threshold and search_radius.                *)
V8Report(walk, sim_threshold, search_radius) ==
    LET analyzed == SelectSeq(walk, LAMBDA p : calculate_stats(p) # {})
        list == SortByScore([i \in 1..Len(analyzed) |->
                                CHOOSE r \in calculate_stats(analyzed[i]) : TRUE])
    IN  V8Rows(V8Outer(list, 1, <<>>, {}, sim_threshold, search_radius), 1)

(* Lines 175-260: Load & Process with the sliders at sim_threshold and     *)
(* search_radius; walk is the order in which os.walk lists the files.      *)
V8Run(sim_threshold, search_radius) ==
    /\ Idle
    /\ last.op # "v8" \/ last.sim # sim_threshold \/ clusters = <<>>
    /\ \E walk \in Perms(lib) :
          LET results == [i \in 1..Len(walk) |-> walk[i]]
              analyzed == SelectSeq(results, LAMBDA p : calculate_stats(p) # {})
              list == SortByScore([i \in 1..Len(analyzed) |->
                                      CHOOSE r \in calculate_stats(analyzed[i]) : TRUE])
              rows == V8Report(results, sim_threshold, search_radius)
              clustered == {rows[i].image_id : i \in 1..Len(rows)}
              singles == SelectSeq([i \in 1..Len(list) |-> list[i].path],
                                   LAMBDA p : p \notin clustered)
              out == V8Copy(rows, singles, {}, {})
          IN  /\ clusters' = rows
              /\ keepers' = out.keep
              /\ discards' = out.discard
              /\ last' = Done("v8", "report", "", 0,
                               [sim |-> sim_threshold, rad |-> search_radius,
                                considered |-> {list[i].path : i \in 1..Len(list)},
                                orphans |-> Range(singles)])
    /\ ui' = [tool |-> "v8", sim_threshold |-> sim_threshold, search_radius |-> search_radius]
    /\ UNCHANGED <<meta, lib, images, ing, pc, txn, pending, run>>

(* Lines 24-26, 175-191: a slider is moved after a run and the script runs  *)
(* again with the test of line 191 false: the report is shown as it is.     *)
V8Slide(sim_threshold, search_radius) ==
    /\ Idle
    /\ last.op = "v8"
    /\ ~(sim_threshold # last.sim \/ clusters = <<>>)
    /\ ui' = [tool |-> "v8", sim_threshold |-> sim_threshold, search_radius |-> search_radius]
    /\ UNCHANGED <<meta, lib, keepers, discards, images, clusters, ing, pc, txn, pending, run, last>>

----------------------------------------------------------------------------
(* The library *)

Init ==
    /\ meta \in Folders
    /\ lib = Paths
    /\ keepers = {}
    /\ discards = {}
    /\ images = <<>>
    /\ clusters = <<>>
    /\ ing = [s \in Sessions |-> NoRun]
    /\ pc = "idle"
    /\ txn = <<>>
    /\ pending = <<>>
    /\ run = NoParams
    /\ last = Done("init", "", "", 0, NoParams)
    /\ ui = NoUi

Next ==
    \/ \E s \in Sessions, root \in ScanRoots : IngestScan(s, root)
    \/ \E s \in Sessions : IngestSave(s)
    \/ \E st \in Settings : ReclusterStart(st[1], st[2])
    \/ ReclusterInsert
    \/ ReclusterCommit
    \/ Crash
    \/ \E cid \in ClusterIds(clusters) : KeepAll(cid)
    \/ \E cid \in ClusterIds(clusters), path \in Paths : KeepThisOnly(cid, path)

Spec == Init /\ [][Next]_vars

(* Two browser sessions that ingest, and nothing else. *)
NextIngest ==
    \/ \E s \in Sessions, root \in ScanRoots : IngestScan(s, root)
    \/ \E s \in Sessions : IngestSave(s)

SpecIngest == Init /\ [][NextIngest]_vars

NextSave ==
    \/ \E root \in ScanRoots : IngestScan("tab1", root)
    \/ SaveBegin
    \/ SaveInsert
    \/ SaveCommit
    \/ IngestCrash

SpecSave == Init /\ [][NextSave]_vars

NextPool ==
    \/ \E root \in ScanRoots, workers \in Threads : PoolSubmit(root, workers)
    \/ WorkerStart
    \/ \E p \in Paths : WorkerFinish(p)
    \/ \E p \in Paths : Collect(p)
    \/ PoolSave

SpecPool == Init /\ [][NextPool]_vars

NextApi ==
    \/ Next
    \/ \E cid \in CidRange, path \in Paths : CallKeepOne(cid, path)

SpecApi == Init /\ [][NextApi]_vars

(* The detection alone, on the catalog of a folder of readable photos that *)
(* one ingestion has indexed, its futures completing in any order.         *)
InitCluster ==
    /\ meta \in [Paths -> ClusterKinds]
    /\ lib = Paths
    /\ keepers = {}
    /\ discards = {}
    /\ \E order \in Perms(Paths) :
          images = ExecuteMany(<<>>, [i \in 1..Len(order) |->
                                         CHOOSE t \in analyze_image(order[i]) : TRUE])
    /\ clusters = <<>>
    /\ ing = [s \in Sessions |-> NoRun]
    /\ pc = "idle"
    /\ txn = <<>>
    /\ pending = <<>>
    /\ run = NoParams
    /\ last = Done("ingest", "Added", "input_photos", 0, NoParams)
    /\ ui = NoUi

(* The library when the folder holds photos dated at or before the epoch.  *)
EpochKinds == {KindA, KindC, KindE, KindP, KindU}

InitEpoch ==
    /\ meta \in [Paths -> EpochKinds]
    /\ lib = Paths
    /\ keepers = {}
    /\ discards = {}
    /\ images = <<>>
    /\ clusters = <<>>
    /\ ing = [s \in Sessions |-> NoRun]
    /\ pc = "idle"
    /\ txn = <<>>
    /\ pending = <<>>
    /\ run = NoParams
    /\ last = Done("init", "", "", 0, NoParams)
    /\ ui = NoUi

NextEpoch ==
    \/ \E root \in ScanRoots : IngestScan("tab1", root)
    \/ IngestSave("tab1")
    \/ \E st \in Settings : ReclusterStart(st[1], st[2])
    \/ ReclusterInsert
    \/ ReclusterCommit
    \/ Crash

SpecEpoch == InitEpoch /\ [][NextEpoch]_vars

(* The review of a library of one more photo, shots and their copies, that *)
(* one ingestion has indexed: enough for two clusters at a time.           *)
ReviewPaths == 1..(NFiles + 1)

ReviewKinds == {KindA, KindB}

InitReview ==
    /\ meta \in [ReviewPaths -> ReviewKinds]
    /\ lib = ReviewPaths
    /\ keepers = {}
    /\ discards = {}
    /\ images = ExecuteMany(<<>>, [p \in ReviewPaths |-> CHOOSE t \in analyze_image(p) : TRUE])
    /\ clusters = <<>>
    /\ ing = [s \in Sessions |-> NoRun]
    /\ pc = "idle"
    /\ txn = <<>>
    /\ pending = <<>>
    /\ run = NoParams
    /\ last = Done("ingest", "Added", "input_photos", 0, NoParams)
    /\ ui = NoUi

NextReview ==
    \/ \E st \in Settings : ReclusterStart(st[1], st[2])
    \/ ReclusterInsert
    \/ ReclusterCommit
    \/ \E cid \in ClusterIds(clusters) : KeepAll(cid)
    \/ \E cid \in ClusterIds(clusters), path \in ReviewPaths : KeepThisOnly(cid, path)

SpecReview == InitReview /\ [][NextReview]_vars

(* The app, the review and the two tools that delete rows of table images. *)
NextLibrary ==
    \/ Next
    \/ \E threshold \in BlurSettings, kept \in SUBSET Paths : MoveToTrash(threshold, kept)
    \/ \E docs \in SUBSET Paths : MoveToArchive(docs)

SpecLibrary == Init /\ [][NextLibrary]_vars

(* Line 10 (10 in the source), scaled to the size of the model's folder. *)
MIN_TOTAL_FILES == 2

(* Lines 14-30 on the file names of the model: name 1 is "19-001", name 2   *)
(* is "ab_002", any further name is an "IMG_..." and has no prefix (<<>>).  *)
get_pattern_prefix(p) ==
    IF BaseName(p) = 1 THEN <<"1", "9">>
    ELSE IF BaseName(p) = 2 THEN <<"a", "b">>
    ELSE <<>>

(* Lines 43-106: the prefixes of clustered files, most files first, that    *)
(* MIN_TOTAL_FILES or more indexed files carry.                            *)
scan_database_for_targets ==
    IF clusters = <<>> THEN <<>>
    ELSE LET total(prefix) ==
                 Cardinality({i \in 1..Len(images) : get_pattern_prefix(images[i].path) = prefix})
             \* the keys of the Counter of lines 77-80, in the order of first insertion
             RECURSIVE PrefixesOf(_)
             PrefixesOf(paths) ==
                 IF paths = <<>> THEN <<>>
                 ELSE LET front == PrefixesOf(SubSeq(paths, 1, Len(paths) - 1))
                          prefix == get_pattern_prefix(paths[Len(paths)])
                      IN  IF prefix = <<>> \/ prefix \in Range(front) THEN front
                          ELSE Append(front, prefix)
             keys == PrefixesOf(JoinPaths(clusters))
             sorted_prefixes ==
                 SortByScore([i \in 1..Len(keys) |-> [prefix |-> keys[i], total_score |-> total(keys[i])]])
             valid == SelectSeq(sorted_prefixes, LAMBDA t : t.total_score >= MIN_TOTAL_FILES)
         IN  [i \in 1..Len(valid) |-> valid[i].prefix]

(* Lines 110-134: the clusters with a member whose file name contains       *)
(* target_prefix; of the model's names only those with that prefix do.     *)
scout_target(target_prefix) ==
    {cid \in ClusterIds(clusters) :
        \E p \in Range(Items(cid)) : get_pattern_prefix(p) = target_prefix}

(* Lines 177-181: the target that a choice selects, <<>> for None. *)
ChoiceTarget(choice, targets) ==
    LET Digit == ("0" :> 0) @@ ("1" :> 1) @@ ("2" :> 2) @@ ("3" :> 3) @@ ("4" :> 4) @@
                 ("5" :> 5) @@ ("6" :> 6) @@ ("7" :> 7) @@ ("8" :> 8) @@ ("9" :> 9)
        isdigit == choice # <<>> /\ \A i \in 1..Len(choice) : choice[i] \in DOMAIN Digit
        RECURSIVE int(_)
        int(text) ==
            IF text = <<>> THEN 0
            ELSE 10 * int(SubSeq(text, 1, Len(text) - 1)) + Digit[text[Len(text)]]
        idx == int(choice) - 1
    IN  IF isdigit
        THEN IF 0 <= idx /\ idx < Len(targets) THEN targets[idx + 1] ELSE <<>>
        ELSE IF choice \in Range(targets) THEN choice ELSE <<>>

(* python v15.6_sniper.py: main() enters its loop. *)
SniperStart ==
    /\ Idle
    /\ ui.tool = "app"
    /\ ui' = [tool |-> "sniper", loop |-> "running", target |-> <<>>]
    /\ UNCHANGED <<meta, lib, keepers, discards, images, clusters, ing, pc, txn, pending, run, last>>

(* Lines 170-187: one round of the loop of main(); choice is the answer to  *)
(* "Enter ID or PREFIX", confirm the answer to the prompt of fire_sniper.   *)
SniperRound(choice, confirm) ==
    /\ Idle
    /\ ui.tool = "sniper"
    /\ ui.loop = "running"
    /\ LET targets == scan_database_for_targets
           target == ChoiceTarget(choice, targets)
           data == scout_target(target)
           Quiet(loop, said) ==
               /\ ui' = [ui EXCEPT !.loop = loop, !.target = <<>>]
               /\ last' = Done("main", said, "", 0, NoParams)
               /\ UNCHANGED <<meta, lib, keepers, discards, images, clusters, ing, pc, txn,
                              pending, run>>
       IN  IF targets = <<>> THEN Quiet("exited", "no targets")
           ELSE IF lower(choice) = <<"q">> THEN Quiet("exited", "quit")
           ELSE IF target = <<>> THEN Quiet("running", "Invalid selection.")
           ELSE IF data = {} THEN Quiet("running", "No actions available.")
           ELSE /\ fire_sniper(data, confirm)
                /\ ui' = [ui EXCEPT !.target = target]

----------------------------------------------------------------------------
(* 3c. v16.5_librarian.py and v17_blur_buster.py, a session at a time: the  *)
(* scan fills the list of candidates, Keep takes one off the list, Move     *)
(* works through the list.  ui holds session_state and what the folders    *)
(* archived_documents and Blurry_Trash contain: a folder maps a file name,  *)
(* <<name, 0>> as it was, <<name, -1>> with _copy and <<name, score>> with  *)
(* _score added, to the path its content came from (0: a file that was     *)
(* there before).                                                          *)

(* list.pop(true_index) with the index of a wrong item, the first. *)
Pop_First(list, path) == Tail(list)

(* v16.5 lines 188-189, v17 lines 159-160: candidates.index(item), pop. *)
Pop(list, path) ==
    LET true_index == CHOOSE i \in 1..Len(list) :
                          list[i].path = path /\ \A j \in 1..(i - 1) : list[j].path # path
    IN  SubSeq(list, 1, true_index - 1) \o SubSeq(list, true_index + 1, Len(list))

(* v16.5 lines 58-87 (docs: the files is_document_candidate picks) and v17  *)
(* lines 38-56 (ORDER BY sharpness ASC).                                   *)
ToolScan(tool, threshold, docs) ==
    /\ Idle
    /\ images # <<>>
    /\ LET picked == IF tool = "librarian"
                     THEN SelectSeq(images, LAMBDA row : row.path \in docs \cap lib)
                     ELSE SelectSeq(images, LAMBDA row : row.sharpness < threshold /\ row.path \in lib)
           found == [i \in 1..Len(picked) |->
                        [path |-> picked[i].path, score |-> picked[i].sharpness,
                         total_score |-> 0 - picked[i].sharpness]]
       IN  ui' = [ui EXCEPT !.tool = tool, !.kept = {}, !.moved_count = 0,
                            !.candidates = IF tool = "librarian" THEN found ELSE SortByScore(found)]
    /\ UNCHANGED <<meta, lib, keepers, discards, images, clusters, ing, pc, txn, pending, run, last>>

(* v16.5 lines 187-190, v17 lines 158-161: the Keep button under a picture; *)
(* kept records what was kept since the scan.                              *)
ToolKeep(path) ==
    /\ ui.tool \in {"librarian", "blur_buster"}
    /\ \E i \in 1..Len(ui.candidates) : ui.candidates[i].path = path
    /\ ui' = [ui EXCEPT !.candidates = Pop(ui.candidates, path), !.kept = @ \cup {path}]
    /\ UNCHANGED <<meta, lib, keepers, discards, images, clusters, ing, pc, txn, pending, run, last>>

(* v16.5 lines 100-130, v17 lines 70-100: Move to Archive, Move to Trash;   *)
(* fail: the files whose shutil.move raises although the file is there     *)
(* (their number is kept in last.ignored).                                 *)
ToolMove(fail) ==
    /\ Idle
    /\ ui.tool \in {"librarian", "blur_buster"}
    /\ ui.candidates # <<>>
    /\ fail \subseteq {ui.candidates[i].path : i \in 1..Len(ui.candidates)}
    /\ LET librarian == ui.tool = "librarian"
           valid_candidates == IF librarian
                               THEN SelectSeq(ui.candidates, LAMBDA c : c.path \in lib)
                               ELSE ui.candidates
           RECURSIVE MoveEach(_, _)
           MoveEach(items, st) ==
               IF items = <<>> THEN st
               ELSE LET src == Head(items).path
                        fname == <<BaseName(src), 0>>
                        dst == IF fname \notin DOMAIN st.folder THEN fname
                               ELSE <<BaseName(src), IF librarian THEN 0 - 1 ELSE Head(items).score>>
                    IN  IF src \notin st.lib \/ src \in fail THEN MoveEach(Tail(items), st)
                        ELSE MoveEach(Tail(items),
                                 [lib |-> st.lib \ {src},
                                  folder |-> [n \in DOMAIN st.folder \cup {dst} |->
                                                 IF n = dst THEN src ELSE st.folder[n]],
                                  deleted |-> st.deleted \cup {src},
                                  moved_count |-> st.moved_count + 1])
           r == MoveEach(valid_candidates,
                         [lib |-> lib, folder |-> IF librarian THEN ui.archive ELSE ui.trash,
                          deleted |-> {}, moved_count |-> 0])
       IN  /\ lib' = r.lib
           /\ images' = DeleteImages(images, r.deleted)
           /\ ui' = [ui EXCEPT !.candidates = <<>>, !.moved_count = r.moved_count,
                               !.archive = IF librarian THEN r.folder ELSE @,
                               !.trash = IF librarian THEN @ ELSE r.folder]
    /\ last' = Done(ui.tool, "Moved", "", Cardinality(fail), NoParams)
    /\ UNCHANGED <<meta, keepers, discards, clusters, ing, pc, txn, pending, run>>


(* An indexed folder, and an archive that is empty or holds scan.jpg and    *)
(* scan_copy.jpg (name 1) of an earlier library.                            *)
InitTools ==
    /\ meta \in [Paths -> ReviewKinds]
    /\ lib = Paths
    /\ keepers = {}
    /\ discards = {}
    /\ images = ExecuteMany(<<>>, [p \in Paths |-> CHOOSE t \in analyze_image(p) : TRUE])
    /\ clusters = <<>>
    /\ ing = [s \in Sessions |-> NoRun]
    /\ pc = "idle"
    /\ txn = <<>>
    /\ pending = <<>>
    /\ run = NoParams
    /\ last = Done("ingest", "Added", "input_photos", 0, NoParams)
    /\ \E old \in {{}, {<<1, 0>>, <<1, 0 - 1>>}} :
          ui = [tool |-> "app", candidates |-> <<>>, kept |-> {}, moved_count |-> 0,
                archive |-> [n \in old |-> 0], trash |-> [n \in {} |-> 0]]

NextTools ==
    \/ \E docs \in SUBSET Paths : ToolScan("librarian", BlurDefault, docs)
    \/ \E threshold \in BlurSettings : ToolScan("blur_buster", threshold, {})
    \/ \E path \in Paths : ToolKeep(path)
    \/ \E fail \in SUBSET lib : ToolMove(fail)

SpecTools == InitTools /\ [][NextTools]_vars

----------------------------------------------------------------------------
(* 3d. converter.py: every .heic/.heif file of the folder is handed to a    *)
(* pool of WORKERS = 4 threads (more than the model has files to convert).  *)
(* A file to convert is <<stem, extension>>; ui.jpg maps the stem of every  *)
(* .jpg of the folder to the file its content came from (<<stem, "jpg">>:   *)
(* it was there before), ui.job holds where each convert_file call stands.  *)

(* Lines 48-67: run_conversion walks the folder and submits the files;      *)
(* heic_files and jpgs: what the first run finds in the folder.            *)
ConvertStart(heic_files, jpgs) ==
    /\ heic_files # {}
    /\ IF ui.tool = "converter"
       THEN /\ heic_files = DOMAIN ui.job
            /\ jpgs = DOMAIN ui.jpg
            /\ \A f \in heic_files : ui.job[f] = "returned"
            /\ ui' = [ui EXCEPT !.run = 2, !.job = [f \in heic_files |-> "submitted"]]
       ELSE /\ ui.tool = "app"
            /\ ui' = [tool |-> "converter", run |-> 1,
                      job |-> [f \in heic_files |-> "submitted"],
                      jpg |-> [stem \in jpgs |-> <<stem, "jpg">>]]
    /\ UNCHANGED <<meta, lib, keepers, discards, images, clusters, ing, pc, txn, pending, run, last>>

(* Lines 15-23: target_path, and the test "Skip if JPG already exists". *)
ConvertCheck(f) ==
    /\ ui.tool = "converter"
    /\ f \in DOMAIN ui.job
    /\ ui.job[f] = "submitted"
    /\ ui' = [ui EXCEPT !.job[f] = IF f[1] \in DOMAIN ui.jpg THEN "returned" ELSE "saving"]
    /\ UNCHANGED <<meta, lib, keepers, discards, images, clusters, ing, pc, txn, pending, run, last>>

(* Lines 25-46: Image.open and img.save(target_path); opens: whether        *)
(* Image.open succeeds.                                                     *)
ConvertSave(f, opens) ==
    /\ ui.tool = "converter"
    /\ f \in DOMAIN ui.job
    /\ ui.job[f] = "saving"
    /\ ui' = [ui EXCEPT !.job[f] = "returned",
                        !.jpg = IF opens
                                THEN [stem \in DOMAIN ui.jpg \cup {f[1]} |->
                                         IF stem = f[1] THEN f ELSE ui.jpg[stem]]
                                ELSE @]
    /\ UNCHANGED <<meta, lib, keepers, discards, images, clusters, ing, pc, txn, pending, run, last>>

NextConvert ==
    \/ \E heic_files \in SUBSET {<<1, "heic">>, <<1, "heif">>, <<2, "heic">>}, jpgs \in SUBSET {1, 2} :
          ConvertStart(heic_files, jpgs)
    \/ \E f \in {<<1, "heic">>, <<1, "heif">>, <<2, "heic">>} : ConvertCheck(f)
    \/ \E f \in {<<1, "heic">>, <<1, "heif">>, <<2, "heic">>}, opens \in BOOLEAN : ConvertSave(f, opens)

SpecConvert == InitReview /\ [][NextConvert]_vars

----------------------------------------------------------------------------
(* ITEMS_PER_PAGE of the review (5 in the source), scaled to the clusters   *)
(* that the model's folder can hold.                                       *)
ITEMS_PER_PAGE == 1

(* investigator.py lines 137-148, 170-181, 224-228: Previous, Next and      *)
(* "Jump to Page" with Go; target_page: the value of the number input.      *)
PageButton(button, target_page) ==
    /\ Idle
    /\ ui.tool = "app"
    /\ LET filtered_c_ids == ClusterIds(clusters)
           total_pages == IF filtered_c_ids # {}
                          THEN (Cardinality(filtered_c_ids) - 1) \div ITEMS_PER_PAGE + 1
                          ELSE 1
       IN  CASE button = "Go" ->
                  /\ target_page \in 1..total_pages
                  /\ ui' = [ui EXCEPT !.page = target_page - 1]
             [] button = "Previous" ->
                  /\ filtered_c_ids # {}
                  /\ ui.page > 0
                  /\ ui' = [ui EXCEPT !.page = @ - 1]
             [] button = "Next" ->
                  /\ filtered_c_ids # {}
                  /\ ui.page < total_pages - 1
                  /\ ui' = [ui EXCEPT !.page = @ + 1]
    /\ UNCHANGED <<meta, lib, keepers, discards, images, clusters, ing, pc, txn, pending, run, last>>

(* Detection runs, and the review with the buttons of the clusters on the  *)
(* page it shows (lines 183-184: filtered_c_ids[start : start + 5]).        *)
NextPages ==
    \/ \E st \in Settings : ReclusterStart(st[1], st[2])
    \/ ReclusterInsert
    \/ ReclusterCommit
    \/ \E cid \in ClusterIds(clusters), path \in ReviewPaths \cup {0} :
          LET start == ui.page * ITEMS_PER_PAGE
              index == Cardinality({d \in ClusterIds(clusters) : d < cid})
          IN  /\ start <= index
              /\ index < start + ITEMS_PER_PAGE
              /\ IF path = 0 THEN KeepAll(cid) ELSE KeepThisOnly(cid, path)
    \/ \E button \in {"Go", "Previous", "Next"}, target_page \in 1..(NFiles + 1) :
          PageButton(button, target_page)

SpecPages == InitReview /\ [][NextPages]_vars

NextReviewApi ==
    \/ NextReview
    \/ \E cid \in DissolveIds : CallDissolve(cid)

SpecReviewApi == InitReview /\ [][NextReviewApi]_vars

(* The library when an earlier scan has indexed a photo of another folder  *)
(* and the phash text of that row may have been overwritten since with     *)
(* text that is no hex number; the photo folder itself is not indexed yet.  *)
NotHex == <<16>>

Elsewhere == NFiles + 1

InitDamaged ==
    /\ meta \in {f \in [ReviewPaths -> {KindA, KindB, KindC, KindX}] :
                    /\ \A p \in Paths : f[p] \in FileKinds(p)
                    /\ f[Elsewhere] \in ReviewKinds}
    /\ lib = ReviewPaths
    /\ keepers = {}
    /\ discards = {}
    /\ \E text \in {meta[Elsewhere].phash, NotHex} :
          images = <<[NewRow(<<>>, CHOOSE t \in analyze_image(Elsewhere) : TRUE)
                        EXCEPT !.phash = text]>>
    /\ clusters = <<>>
    /\ ing = [s \in Sessions |-> NoRun]
    /\ pc = "idle"
    /\ txn = <<>>
    /\ pending = <<>>
    /\ run = NoParams
    /\ last = Done("ingest", "Added", "elsewhere", 0, NoParams)
    /\ ui = NoUi

SpecDamaged == InitDamaged /\ [][NextEpoch]_vars

(* v8_cached.py on a folder of photos *)
V8Kinds == {KindA, KindB, KindC, KindU, KindX}

InitV8 ==
    /\ meta \in [Paths -> V8Kinds]
    /\ lib = Paths
    /\ keepers = {}
    /\ discards = {}
    /\ images = <<>>
    /\ clusters = <<>>
    /\ ing = [s \in Sessions |-> NoRun]
    /\ pc = "idle"
    /\ txn = <<>>
    /\ pending = <<>>
    /\ run = NoParams
    /\ last = Done("init", "", "", 0, NoParams)
    /\ ui = NoUi

NextV8 == \E st \in Settings : V8Run(st[1], st[2])

SpecV8 == InitV8 /\ [][NextV8]_vars

(* v8_cached.py on a folder of photos with hashes of 12 bits: a shot, a     *)
(* near copy of it (1 bit away) and a shot of five days later that is 11   *)
(* bits away from the first, above the fixed 10 and below the default 16.   *)
InitV8Live ==
    /\ meta \in [Paths -> {[KindA EXCEPT !.phash = <<0, 0, 0>>],
                           [KindA EXCEPT !.phash = <<0, 0, 1>>],
                           [KindB EXCEPT !.phash = <<15, 15, 7>>]}]
    /\ lib = Paths
    /\ keepers = {}
    /\ discards = {}
    /\ images = <<>>
    /\ clusters = <<>>
    /\ ing = [s \in Sessions |-> NoRun]
    /\ pc = "idle"
    /\ txn = <<>>
    /\ pending = <<>>
    /\ run = NoParams
    /\ last = Done("init", "", "", 0, NoParams)
    /\ ui = NoUi

(* Runs of the script with the two sliders at 1 or at their defaults. *)
NextV8Live ==
    \/ \E st \in {1, SimDefault} \X {1, RadDefault} : V8Run(st[1], st[2])
    \/ \E st \in {1, SimDefault} \X {1, RadDefault} : V8Slide(st[1], st[2])

SpecV8Live == InitV8Live /\ [][NextV8Live]_vars

(* The detection alone on a folder of shots, edits and copies without EXIF. *)
InitPairs ==
    /\ meta \in [Paths -> {KindA, KindC, KindM}]
    /\ lib = Paths
    /\ keepers = {}
    /\ discards = {}
    /\ \E order \in Perms(Paths) :
          images = ExecuteMany(<<>>, [i \in 1..Len(order) |->
                                         CHOOSE t \in analyze_image(order[i]) : TRUE])
    /\ clusters = <<>>
    /\ ing = [s \in Sessions |-> NoRun]
    /\ pc = "idle"
    /\ txn = <<>>
    /\ pending = <<>>
    /\ run = NoParams
    /\ last = Done("ingest", "Added", "input_photos", 0, NoParams)
    /\ ui = NoUi

NextCluster ==
    \/ \E st \in Settings : ReclusterStart(st[1], st[2])
    \/ ReclusterInsert
    \/ ReclusterCommit
    \/ Crash

SpecCluster == InitCluster /\ [][NextCluster]_vars

SpecPairs == InitPairs /\ [][NextCluster]_vars

(* Detection runs of the app and the sniper in its terminal. *)
NextSniper ==
    \/ NextCluster
    \/ SniperStart
    \/ \E choice \in Choices, confirm \in Answers : SniperRound(choice, confirm)

SpecSniper == InitReview /\ [][NextSniper]_vars

----------------------------------------------------------------------------
(* Properties *)

StoredIds == {clusters[i].image_id : i \in 1..Len(clusters)}

MembersOf(cid) == Range(Items(cid))

(* C1: no asset has rows under two cluster ids or two rows under one, and   *)
(* as long as the store is as a detection run committed it, its clusters    *)
(* and the run's orphans partition the assets the run considered.          *)
C1_MembershipIsPartition ==
    /\ \A i, j \in 1..Len(clusters) :
          (clusters[i].image_id = clusters[j].image_id
           \/ PathOfId(clusters[i].image_id) \cap PathOfId(clusters[j].image_id) # {}) => i = j
    /\ last.op = "recluster" =>
          /\ last.considered = ImageIds(images)
          /\ StoredIds \cup last.orphans = last.considered
          /\ StoredIds \cap last.orphans = {}

C1_Witness ==
    /\ last.op = "recluster"
    /\ pc = "idle"
    /\ clusters # <<>>
    /\ last.orphans # {}

(* The rows a complete run with the parameters of the run in progress writes. *)
NewGeneration == RowsToInsert(FindClusters(images, run.sim, run.rad).clusters, 1)

(* C2: from the DELETE to the commit of a detection run, and across a crash *)
(* in between, the committed clusters table stays the previous generation; *)
(* the commit replaces it by the complete new generation.                  *)
C2_ReplaceIsAtomic ==
    [][ (pc = "writing" \/ pc' = "writing") =>
           \/ clusters' = clusters
           \/ pc = "writing" /\ pc' = "idle" /\ clusters' = NewGeneration ]_vars

C2_Witness ==
    /\ pc = "writing"
    /\ txn # <<>>
    /\ pending # <<>>
    /\ clusters # <<>>
    /\ clusters # NewGeneration

(* C3: after keep_one on a member of a listed cluster has run to its end,   *)
(* every other member is gone from table images, the kept one is still     *)
(* there and the cluster has no rows.                                      *)
C3_ResolveDeletesLosers ==
    [][ \A cid \in ClusterIds(clusters), keep_path \in Paths :
           (KeepThisOnly(cid, keep_path) /\ keep_path \in lib) =>
              /\ \A m \in MembersOf(cid) \ {keep_path} : m \notin existing_paths'
              /\ keep_path \in existing_paths'
              /\ cid \notin ClusterIds(clusters') ]_vars

(* C4: no stored cluster holds an asset whose file keep_one has moved to    *)
(* Discards: a later detection run does not group a discarded member again. *)
C4_ResolvedStaysResolved ==
    \A i \in 1..Len(clusters) : PathOfId(clusters[i].image_id) \cap discards = {}

(* C5: keep_one with a keep_path that is no member of the cluster ends     *)
(* with InvalidSelection and leaves the cluster rows, table images and     *)
(* every file where it was.                                                *)
C5_NonMemberIsRejected ==
    [][ \A cid \in CidRange, keep_path \in Paths :
           (CallKeepOne(cid, keep_path) /\ keep_path \notin MembersOf(cid)) =>
              /\ last'.out = "InvalidSelection"
              /\ UNCHANGED <<clusters, images, lib, keepers, discards>> ]_vars

(* C6: keep_one on a listed cluster whose files are all in the photo folder *)
(* leaves the kept file in Keepers and not in Discards, the file of every  *)
(* other member in Discards, and every other file where it was.            *)
C6_FilesGoWhereDecided ==
    [][ \A cid \in ClusterIds(clusters), keep_path \in Paths :
           (KeepThisOnly(cid, keep_path) /\ MembersOf(cid) \subseteq lib) =>
              /\ keep_path \in keepers'
              /\ keep_path \notin discards'
              /\ \A m \in MembersOf(cid) \ {keep_path} : m \in discards'
              /\ \A p \in Paths \ MembersOf(cid) :
                    /\ p \in lib <=> p \in lib'
                    /\ p \in keepers <=> p \in keepers'
                    /\ p \in discards <=> p \in discards' ]_vars

(* C7: a scan of a folder whose files are all indexed analyzes nothing and *)
(* changes nothing, and an ingestion of the folder that the last finished  *)
(* handler ingested adds no row to table images.                           *)
C7_ReingestAddsNothing ==
    [][ /\ \A s \in Sessions, root \in ScanRoots :
              (IngestScan(s, root) /\ (Folder(root) \cap lib) \subseteq existing_paths) =>
                 ing' = ing /\ images' = images
        /\ \A s \in Sessions :
              (IngestSave(s) /\ last.op = "ingest" /\ last.root = ing[s].root) =>
                 images' = images ]_vars

C7_Witness ==
    /\ last.op = "ingest"
    /\ images # <<>>
    /\ \E s \in Sessions : ing[s].active /\ ing[s].root = last.root /\ ing[s].todo # {}
    /\ \E root \in ScanRoots : Folder(root) # {} /\ (Folder(root) \cap lib) \subseteq existing_paths

(* C8: every step keeps the rows of table images as they are (id, path,    *)
(* phash, timestamp, sharpness, width, height), in place, with one row per *)
(* path; the steps of an ingestion leave table clusters as it is.          *)
C8_RowsAreImmutable ==
    [][ /\ Len(images') >= Len(images)
        /\ \A i \in 1..Len(images) : images'[i] = images[i]
        /\ \A i, j \in 1..Len(images') : images'[i].path = images'[j].path => i = j
        /\ ((\E s \in Sessions : IngestSave(s))
            \/ (\E s \in Sessions, root \in ScanRoots : IngestScan(s, root)))
              => clusters' = clusters ]_vars

C8_Witness ==
    /\ last.op = "ingest"
    /\ last.ignored > 0
    /\ clusters # <<>>

SameCluster(a, b) ==
    \E i, j \in 1..Len(clusters) :
       /\ clusters[i].image_id = a
       /\ clusters[j].image_id = b
       /\ clusters[i].cluster_id = clusters[j].cluster_id

(* C10: in whatever order table images returns its rows, once a detection  *)
(* run has committed, any two assets with the same phash and the same      *)
(* timestamp are rows of one cluster, whatever else the catalog holds.     *)
C10_TwinsShareACluster ==
    last.op = "recluster" =>
       \A i, j \in 1..Len(images) :
          (i # j /\ images[i].phash = images[j].phash
           /\ images[i].timestamp = images[j].timestamp) =>
             SameCluster(images[i].id, images[j].id)

C10_Witness ==
    /\ last.op = "recluster"
    /\ pc = "idle"
    /\ images[1].phash = images[3].phash
    /\ images[1].timestamp = images[3].timestamp
    /\ images[2].timestamp = images[1].timestamp
    /\ images[2].phash # images[1].phash
    /\ images[1].path > images[3].path
    /\ last.orphans # {}

ImageRow(id) == images[CHOOSE i \in 1..Len(images) : images[i].id = id]

(* The fingerprint of the asset of a cluster row: of the catalog row in    *)
(* table clusters, of the file in the report of v8_cached.py.              *)
StoredHash(row) ==
    IF last.op = "v8" THEN hex_to_hash(meta[row.image_id].phash)
    ELSE hex_to_hash(ImageRow(row.image_id).phash)

(* C11: right after a clustering run with threshold sim, every member of a *)
(* stored cluster is within sim bits of the cluster's seed, its first row. *)
C11_MembersWithinThreshold ==
    last.op \in {"recluster", "v8"} =>
       \A cid \in ClusterIds(clusters) :
          \A k \in 1..Len(SelectRows(clusters, cid)) :
             HashDiff(StoredHash(SelectRows(clusters, cid)[1]),
                      StoredHash(SelectRows(clusters, cid)[k])) <= last.sim

(* The capture time of the file of a catalog row: {} when it has none. *)
CapturedAt(row) == meta[row.path].exif

(* C15: a file without capture time and a file taken at the epoch are      *)
(* never stored with the same timestamp, and every file that has a capture *)
(* time is stored with a timestamp that the time gate of line 203 accepts. *)
C15_AbsentIsNotEpoch ==
    /\ \A i, j \in 1..Len(images) :
          (CapturedAt(images[i]) = {} /\ CapturedAt(images[j]) = {0}) =>
             images[i].timestamp # images[j].timestamp
    /\ \A i \in 1..Len(images) :
          CapturedAt(images[i]) # {} => DataObj(images[i]).ts > 0

(* Two catalog rows whose files both have a capture time, more than        *)
(* time_rad days apart.                                                    *)
FarApart(r1, r2, time_rad) ==
    /\ CapturedAt(r1) # {}
    /\ CapturedAt(r2) # {}
    /\ Abs((CHOOSE t \in CapturedAt(r1) : TRUE) - (CHOOSE t \in CapturedAt(r2) : TRUE))
          > time_rad * SecondsPerDay

(* C12: right after a detection run with radius time_rad, no member of a   *)
(* stored cluster has a capture time more than time_rad days from the      *)
(* capture time of the cluster's seed, however close their fingerprints.   *)
C12_TimeGateSeparates ==
    last.op = "recluster" =>
       \A cid \in ClusterIds(clusters) :
          \A k \in 1..Len(SelectRows(clusters, cid)) :
             ~FarApart(ImageRow(SelectRows(clusters, cid)[1].image_id),
                       ImageRow(SelectRows(clusters, cid)[k].image_id), last.rad)

(* Two files with the same fingerprint, exactly one without capture time. *)
OneUndated(p, q) ==
    /\ meta[p].ok /\ meta[q].ok
    /\ HashDiff(hex_to_hash(meta[p].phash), hex_to_hash(meta[q].phash)) = 0
    /\ (meta[p].exif = {}) # (meta[q].exif = {})

(* C13: two assets at distance 0 of which exactly one has no capture time  *)
(* share a cluster after a detection run of v10.1 (permissive gate) and    *)
(* share none in the report of v8_cached.py (are_time_compatible_strict).  *)
C13_MissingTimestampPolicies ==
    /\ last.op = "recluster" =>
          \A i, j \in 1..Len(images) :
             OneUndated(images[i].path, images[j].path) =>
                SameCluster(images[i].id, images[j].id)
    /\ last.op = "v8" =>
          \A p, q \in last.considered : OneUndated(p, q) => ~SameCluster(p, q)

(* The greedy scan of lines 192-212 without the break of line 205: a pair  *)
(* matches when its fingerprints are within sim_thresh and its capture     *)
(* times, if both files have one, are within time_rad days.                *)
RefMatch(a, b, sim_thresh, time_rad) ==
    HashDiff(a.hash, b.hash) <= sim_thresh /\ ~FarApart(a, b, time_rad)

RECURSIVE RefInner(_, _, _, _, _, _, _)
RefInner(objs, a, j, current_cluster, visited, sim_thresh, time_rad) ==
    IF j > Len(objs) THEN [cluster |-> current_cluster, visited |-> visited]
    ELSE IF objs[j].id \notin visited /\ RefMatch(a, objs[j], sim_thresh, time_rad)
    THEN RefInner(objs, a, j + 1, current_cluster \cup {objs[j].id},
                  visited \cup {objs[j].id}, sim_thresh, time_rad)
    ELSE RefInner(objs, a, j + 1, current_cluster, visited, sim_thresh, time_rad)

RECURSIVE RefOuter(_, _, _, _, _, _)
RefOuter(objs, i, found, visited, sim_thresh, time_rad) ==
    IF i > Len(objs) THEN found
    ELSE IF objs[i].id \in visited
    THEN RefOuter(objs, i + 1, found, visited, sim_thresh, time_rad)
    ELSE LET r == RefInner(objs, objs[i], i + 1, {objs[i].id}, visited \cup {objs[i].id},
                           sim_thresh, time_rad)
         IN  RefOuter(objs, i + 1,
                      IF Cardinality(r.cluster) > 1 THEN found \cup {r.cluster} ELSE found,
                      r.visited, sim_thresh, time_rad)

(* The stored clusters as sets of image ids. *)
StoredPartition ==
    {{clusters[i].image_id : i \in {k \in 1..Len(clusters) : clusters[k].cluster_id = cid}} :
        cid \in ClusterIds(clusters)}

(* C14: the break of the inner scan is taken only between two assets whose *)
(* files both have a capture time, and the clusters a detection run stores *)
(* are those of the same scan without the break.                           *)
C14_EarlyExitIsSound ==
    /\ \A i, j \in 1..Len(images), st \in Settings :
          TimeBreak(DataObj(images[i]), DataObj(images[j]), st[2]) =>
             CapturedAt(images[i]) # {} /\ CapturedAt(images[j]) # {}
    /\ last.op = "recluster" =>
          StoredPartition = RefOuter(data_objs(images), 1, {}, {}, last.sim, last.rad)

(* The score of line 180, sharpness + width*height/10000, times 10000. *)
CompositeScore(row) == row.sharpness * ResDivisor + row.width * row.height

WinnerRows(cid) == SelectSeq(SelectRows(clusters, cid), LAMBDA row : row.is_winner)

(* C16: right after a detection run every stored cluster has exactly one   *)
(* row flagged is_winner, of an asset of the catalog, and no member of the *)
(* cluster has a higher score than that asset.                             *)
C16_OneBestWinner ==
    last.op = "recluster" =>
       \A cid \in ClusterIds(clusters) :
          /\ Len(WinnerRows(cid)) = 1
          /\ WinnerRows(cid)[1].image_id \in ImageIds(images)
          /\ \A k \in 1..Len(SelectRows(clusters, cid)) :
                CompositeScore(ImageRow(SelectRows(clusters, cid)[k].image_id))
                   <= CompositeScore(ImageRow(WinnerRows(cid)[1].image_id))

C16_Witness ==
    /\ last.op = "recluster"
    /\ Len(clusters) = 3
    /\ clusters[3].is_winner
    /\ clusters[1].cluster_id = clusters[3].cluster_id
    /\ CompositeScore(ImageRow(clusters[1].image_id)) = CompositeScore(ImageRow(clusters[2].image_id))
    /\ CompositeScore(ImageRow(clusters[2].image_id)) < CompositeScore(ImageRow(clusters[3].image_id))

(* The order of the scan: timestamp ascending, rows of one timestamp in    *)
(* the order in which table images returns them.                           *)
ScansBefore(id1, id2) ==
    LET p1 == CHOOSE i \in 1..Len(images) : images[i].id = id1
        p2 == CHOOSE i \in 1..Len(images) : images[i].id = id2
    IN  \/ images[p1].timestamp < images[p2].timestamp
        \/ images[p1].timestamp = images[p2].timestamp /\ p1 < p2

(* C17: among the members of a cluster that share the highest score, the   *)
(* one flagged is_winner is the first in scan order.                       *)
C17_TieGoesToFirst ==
    last.op = "recluster" =>
       \A i, j \in 1..Len(clusters) :
          (/\ clusters[i].is_winner
           /\ i # j
           /\ clusters[j].cluster_id = clusters[i].cluster_id
           /\ CompositeScore(ImageRow(clusters[j].image_id))
                 = CompositeScore(ImageRow(clusters[i].image_id)))
             => ScansBefore(clusters[i].image_id, clusters[j].image_id)

C17_Witness ==
    /\ last.op = "recluster"
    /\ Len(clusters) = 3
    /\ clusters[1].cluster_id = clusters[3].cluster_id
    /\ CompositeScore(ImageRow(clusters[1].image_id)) < CompositeScore(ImageRow(clusters[2].image_id))
    /\ CompositeScore(ImageRow(clusters[2].image_id)) = CompositeScore(ImageRow(clusters[3].image_id))
    /\ clusters[2].is_winner
    /\ ~clusters[3].is_winner

(* C18: every cluster id of table clusters has at least two rows, and no   *)
(* asset that a detection run left alone has a row.                        *)
C18_NoSingletonCluster ==
    /\ \A cid \in ClusterIds(clusters) : Len(SelectRows(clusters, cid)) >= 2
    /\ last.op = "recluster" => \A id \in last.orphans : id \notin StoredIds

C18_Witness ==
    /\ last.op = "recluster"
    /\ Len(clusters) = 2
    /\ Cardinality(last.orphans) = 1

(* C19: right after a detection run, the row of every asset in a stored    *)
(* cluster has status CLUSTERED and the row of every orphan has status NEW. *)
C19_StatusFollowsClustering ==
    last.op = "recluster" =>
       \A i \in 1..Len(images) :
          /\ images[i].id \in StoredIds => images[i].status = "CLUSTERED"
          /\ images[i].id \in last.orphans => images[i].status = "NEW"

(* C20: Keep All on a cluster removes the rows of that cluster id and no   *)
(* other row of table clusters, and leaves table images and every file as  *)
(* they are.                                                               *)
C20_DissolveTouchesOneCluster ==
    [][ \A cid \in ClusterIds(clusters) :
           KeepAll(cid) =>
              /\ cid \notin ClusterIds(clusters')
              /\ \A other \in ClusterIds(clusters) \ {cid} :
                    SelectRows(clusters', other) = SelectRows(clusters, other)
              /\ Len(clusters') = Len(clusters) - Len(SelectRows(clusters, cid))
              /\ UNCHANGED <<images, lib, keepers, discards>> ]_vars

C20_Witness ==
    /\ last.op = "dissolve"
    /\ clusters # <<>>
    /\ images # <<>>
    /\ discards # {}

(* C21: dissolve_cluster called with a cluster id that has no rows (never  *)
(* written, dissolved before, or emptied by keep_one) returns without      *)
(* error and leaves both tables and every file as they are.                *)
C21_DissolveOfNothingIsNoOp ==
    [][ \A cid \in DissolveIds :
           (CallDissolve(cid) /\ cid \notin ClusterIds(clusters)) =>
              /\ last'.out = "returned"
              /\ UNCHANGED <<clusters, images, lib, keepers, discards>> ]_vars

(* ReviewPaths holds two clusters at most: with two left in the table and  *)
(* one file in Discards, the call that has just returned came after a      *)
(* keep_one and a new detection run, and was for an id without rows.       *)
C21_Witness ==
    /\ last.op = "dissolve_cluster"
    /\ last.out = "returned"
    /\ Cardinality(ClusterIds(clusters)) = (NFiles + 1) \div 2
    /\ discards # {}

(* The files of a set that analyze_image can read, and the rows of table   *)
(* images whose phash text is the fingerprint of their file.               *)
Readable(todo) == {p \in todo : meta[p].ok}

Intact(row) == row.phash = meta[row.path].phash

C23_BatchIsExactlyTheResults ==
    [][ PoolSave =>
           LET b == ing["tab1"].batch
               good == Readable(ing["tab1"].todo)
           IN  /\ Len(b) = Cardinality(good)
               /\ {b[i].path : i \in 1..Len(b)} = good
               /\ \A i \in 1..Len(b) : b[i] \in analyze_image(b[i].path)
               /\ images' = ExecuteMany(images, b) ]_vars

(* Two workers; every future is yielded; the batch holds two results in   *)
(* the reverse of the order of their submit, and a third file was          *)
(* unreadable.                                                             *)
C23_Witness ==
    /\ ing["tab1"].active
    /\ ing["tab1"].workers = 2
    /\ ing["tab1"].yielded = ing["tab1"].todo
    /\ Len(ing["tab1"].batch) = 2
    /\ Readable(ing["tab1"].todo) # ing["tab1"].todo
    /\ \E i, j \in 1..Len(ing["tab1"].submitted) :
          /\ i < j
          /\ ing["tab1"].submitted[i] = ing["tab1"].batch[2].path
          /\ ing["tab1"].submitted[j] = ing["tab1"].batch[1].path

(* C24: when two ingestion runs have both read the catalog before either  *)
(* writes, each save ends with "Added", keeps the rows the other has       *)
(* written, and leaves one row for every readable file it analyzed and no  *)
(* path with two rows.                                                     *)
C24_RacingIngestsBothSucceed ==
    [][ \A s \in Sessions :
           IngestSave(s) =>
              /\ last'.out = "Added"
              /\ ~ing'[s].active
              /\ SubSeq(images', 1, Len(images)) = images
              /\ \A p \in Readable(ing[s].todo) :
                    Cardinality({i \in 1..Len(images') : images'[i].path = p}) = 1
              /\ \A i, j \in 1..Len(images') : images'[i].path = images'[j].path => i = j ]_vars

(* Both runs have ended; the second to save found rows for two of its      *)
(* files already written by the first.                                     *)
C24_Witness ==
    /\ last.op = "ingest"
    /\ last.ignored >= 2
    /\ \A s \in Sessions : ~ing[s].active
    /\ \A i, j \in 1..Len(images) : images[i].path = images[j].path => i = j

(* C25: every step taken while an ingestion run is in progress, the death  *)
(* of the process included, leaves the committed table images as it was,   *)
(* except the commit, which adds to the rows of before the run a row for   *)
(* every readable file of the run.                                         *)
C25_IngestIsAllOrNothing ==
    [][ (ing["tab1"].active \/ ing'["tab1"].active) =>
           \/ images' = images
           \/ /\ SaveCommit
              /\ SubSeq(images', 1, Len(images)) = images
              /\ {images'[i].path : i \in 1..Len(images')}
                    = existing_paths \cup Readable(ing["tab1"].todo) ]_vars

(* Inside the transaction, part of the batch inserted and part not, the    *)
(* committed table still without any row of the batch.                     *)
C25_Witness ==
    /\ ing["tab1"].active
    /\ "work" \in DOMAIN ing["tab1"]
    /\ ing["tab1"].batch # <<>>
    /\ Len(ing["tab1"].work) > Len(images)
    /\ images # <<>>

(* C26: a resolve (keep_one, fire_sniper) removes the rows of a cluster    *)
(* only when the step has moved the file it keeps out of the photo folder  *)
(* and no file of a member is left in the folder; a keep_one that raises   *)
(* leaves the cluster and every file as they were.                         *)
C26_ClusterOpenUntilAllMoved ==
    [][ /\ \A cid \in ClusterIds(clusters), keep_path \in ReviewPaths :
              KeepThisOnly(cid, keep_path) =>
                 IF last'.out = "FileNotFoundError"
                 THEN UNCHANGED <<clusters, lib, keepers, discards>>
                 ELSE /\ keep_path \in lib
                      /\ keep_path \notin lib'
                      /\ MembersOf(cid) \cap lib' = {}
        /\ \A targets \in SUBSET ClusterIds(clusters), confirm \in Answers :
              fire_sniper(targets, confirm) /\ Confirmed(confirm) =>
                 \A cid \in targets :
                    /\ Head(SortedPaths(Items(cid), 1)) \in lib
                    /\ Head(SortedPaths(Items(cid), 1)) \notin lib'
                    /\ MembersOf(cid) \cap lib' = {} ]_vars

(* C27 as stated: right after a detection run with threshold sim, any two  *)
(* members of one stored cluster are within sim bits of each other.        *)
C27_MembersPairwiseClose ==
    last.op = "recluster" =>
       \A i, j \in 1..Len(clusters) :
          clusters[i].cluster_id = clusters[j].cluster_id =>
             HashDiff(StoredHash(clusters[i]), StoredHash(clusters[j])) <= last.sim

(* C27 amended: right after a detection run with threshold sim, every      *)
(* member of a stored cluster is within sim bits of the first row of the   *)
(* cluster, its seed, and so any two members are within 2 * sim bits of    *)
(* each other.                                                             *)
C27_MembersCloseToSeed ==
    last.op = "recluster" =>
       \A i, j \in 1..Len(clusters) :
          clusters[i].cluster_id = clusters[j].cluster_id =>
             /\ HashDiff(StoredHash(clusters[i]), StoredHash(clusters[j])) <= 2 * last.sim
             /\ (\A k \in 1..(i - 1) : clusters[k].cluster_id # clusters[i].cluster_id) =>
                   HashDiff(StoredHash(clusters[i]), StoredHash(clusters[j])) <= last.sim

(* A stored cluster of a seed and two members that are further from each   *)
(* other than the threshold of the run.                                    *)
C27_Witness ==
    /\ last.op = "recluster"
    /\ last.sim > 0
    /\ Len(clusters) = 3
    /\ clusters[1].cluster_id = clusters[3].cluster_id
    /\ HashDiff(StoredHash(clusters[2]), StoredHash(clusters[3])) > last.sim

(* C28: right after a detection run with sim and rad, no two assets that   *)
(* the run left alone have fingerprints within sim bits while their        *)
(* capture times are within rad days or one of them has none.              *)
C28_OrphansDoNotMatch ==
    last.op = "recluster" =>
       \A x, y \in last.orphans :
          x # y =>
             ~(/\ HashDiff(hex_to_hash(ImageRow(x).phash), hex_to_hash(ImageRow(y).phash))
                     <= last.sim
               /\ ~FarApart(ImageRow(x), ImageRow(y), last.rad))

(* Three orphans: two with fingerprints within the threshold that the time *)
(* gate keeps apart, and an undated one too far from both.                 *)
C28_Witness ==
    /\ last.op = "recluster"
    /\ clusters = <<>>
    /\ Cardinality(last.orphans) = NFiles
    /\ \E x, y \in last.orphans :
          /\ HashDiff(hex_to_hash(ImageRow(x).phash), hex_to_hash(ImageRow(y).phash)) <= last.sim
          /\ FarApart(ImageRow(x), ImageRow(y), last.rad)
    /\ \E x \in last.orphans : CapturedAt(ImageRow(x)) = {}

(* C29: every row of table clusters refers to a row of table images, and   *)
(* every cluster id has at least two members that the join with images     *)
(* finds and exactly one row flagged is_winner.                            *)
C29_ClustersReferToImages ==
    /\ \A i \in 1..Len(clusters) : clusters[i].image_id \in ImageIds(images)
    /\ \A cid \in ClusterIds(clusters) :
          /\ Len(Items(cid)) >= 2
          /\ Len(WinnerRows(cid)) = 1

(* C30: as long as a row of table clusters holds an image id, no step      *)
(* makes that id the id of a path it was not the id of before the step.    *)
C30_ClusterRowKeepsItsAsset ==
    [][ \A id \in StoredIds : id \in StoredIds' => PathOfId(id)' \subseteq PathOfId(id) ]_vars

(* C31: a round of the sniper in which the answer to the fire prompt is not  *)
(* 'fire' in some mix of upper and lower case moves no file and changes no  *)
(* table.                                                                  *)
C31_NoFireNoChange ==
    [][ \A choice \in Choices, confirm \in Answers :
           lower(confirm) # <<"f", "i", "r", "e">> /\ SniperRound(choice, confirm) =>
              UNCHANGED <<clusters, images, lib, keepers, discards>> ]_vars

C31_Witness ==
    /\ last.op = "fire_sniper"
    /\ last.out = "Aborted."
    /\ scan_database_for_targets # <<>>

(* C32: in a round that lists targets and is not quit, the 1-based ID of a   *)
(* listed target selects that target, the exact text of a listed prefix    *)
(* selects that prefix, and any other choice selects nothing and is        *)
(* answered with "Invalid selection.".                                     *)
C32_ChoiceSelectsListedTarget ==
    [][ \A choice \in Choices, confirm \in Answers :
           LET targets == scan_database_for_targets
               IdText == <<(<<"1">>), (<<"2">>), (<<"3">>)>>
               ids == {i \in 1..Len(targets) : i <= Len(IdText) /\ choice = IdText[i]}
           IN  lower(choice) # <<"q">> /\ SniperRound(choice, confirm) /\ targets # <<>> =>
                  /\ \A i \in ids : ui'.target = targets[i]
                  /\ choice \in Range(targets) => ui'.target = choice
                  /\ ids = {} /\ choice \notin Range(targets) =>
                        ui'.target = <<>> /\ last'.out = "Invalid selection." ]_vars

(* C33, first half: a round in which the operator picks a listed target, by *)
(* ID or by prefix, and answers 'fire' deletes at least one cluster.        *)
C33_EveryRoundDeletesACluster ==
    [][ \A choice \in Choices, confirm \in Answers :
           LET targets == scan_database_for_targets
           IN  /\ lower(confirm) = <<"f", "i", "r", "e">>
               /\ SniperRound(choice, confirm)
               /\ \/ choice \in Range(targets)
                  \/ \E i \in 1..Len(targets) : choice = <<(<<"1">>), (<<"2">>)>>[i]
               => Cardinality(ClusterIds(clusters')) < Cardinality(ClusterIds(clusters)) ]_vars

(* C34 (a file whose move fails stays in the folder, so the failing sets   *)
(* of a step are among the files that are there before and after it):      *)
(* Keep takes the candidate off the list, and a Move to Archive or         *)
(* Move to Trash leaves the file and the row of every candidate kept since  *)
(* the scan where they are; the files it moves are candidates of the list,  *)
(* and when no move fails they are all the listed candidates.              *)
C34_KeptIsLeftAlone ==
    [][ /\ \A path \in Paths :
              ToolKeep(path) => \A i \in 1..Len(ui'.candidates) : ui'.candidates[i].path # path
        /\ \A fail \in SUBSET (lib \cap lib') :
              ui'.candidates = <<>> /\ ToolMove(fail) =>
                 LET listed == {ui.candidates[i].path : i \in 1..Len(ui.candidates)}
                 IN  /\ ui.kept \cap lib \subseteq lib'
                     /\ ui.kept \cap existing_paths \subseteq existing_paths'
                     /\ lib \ lib' \subseteq listed
                     /\ fail = {} => listed \cap lib' = {} ]_vars

C34_Witness ==
    /\ last.op \in {"librarian", "blur_buster"}
    /\ ui.moved_count > 0
    /\ ui.kept # {}
    /\ ui.kept \subseteq lib \cap existing_paths

(* C35: a Move to Archive or Move to Trash deletes the row of a candidate   *)
(* exactly when it has moved the candidate's file, a candidate whose move   *)
(* fails keeps its row, and the count it reports is the number of rows it   *)
(* has deleted.                                                            *)
C35_RowDeletedIffMoved ==
    [][ \A fail \in SUBSET (lib \cap lib') :
           ui'.candidates = <<>> /\ ToolMove(fail) =>
              /\ \A i \in 1..Len(ui.candidates) :
                    LET p == ui.candidates[i].path
                    IN  (p \in existing_paths /\ p \notin existing_paths') <=> (p \in lib /\ p \notin lib')
              /\ fail \cap existing_paths \subseteq existing_paths'
              /\ ui'.moved_count = Cardinality(existing_paths \ existing_paths') ]_vars

C35_Witness ==
    /\ last.op \in {"librarian", "blur_buster"}
    /\ last.ignored > 0
    /\ ui.moved_count > 0

(* C36: a Move to Archive leaves every file that is in the archive folder   *)
(* in the folder with the content it had.                                  *)
C36_ArchiveNeverOverwritten ==
    [][ \A n \in DOMAIN ui.archive :
           n \in DOMAIN ui'.archive /\ ui'.archive[n] = ui.archive[n] ]_vars

(* C37: whenever the review renders a page while clusters remain, the page  *)
(* index it slices with is at least 0 and less than the number of pages.    *)
C37_PageWithinRange ==
    Idle /\ ui.tool = "app" /\ clusters # <<>> =>
        /\ 0 <= ui.page
        /\ ui.page < (Cardinality(ClusterIds(clusters)) - 1) \div ITEMS_PER_PAGE + 1

(* C39: no step of the converter replaces the content of a .jpg that is in *)
(* the folder, whether it was there before the run or a worker of the run  *)
(* has written it (so no two workers write one target path).               *)
C39_JpgNeverOverwritten ==
    [][ ui.tool = "converter" =>
           \A stem \in DOMAIN ui.jpg : ui'.jpg[stem] = ui.jpg[stem] ]_vars

(* C38: whenever the cached app shows a report, its clusters are those that *)
(* the clustering yields, for some order of the files, with the Similarity  *)
(* Threshold and the Time Search Radius at their current positions.         *)
C38_ReportMatchesSliders ==
    ui.tool = "v8" /\ clusters # <<>> =>
        \E walk \in Perms(lib) : clusters = V8Report(walk, ui.sim_threshold, ui.search_radius)

=============================================================================
